---- MODULE Spec2Model ----
(***************************************************************************)
(* tesla-alert: one run of main(): authenticate against the vehicle API,   *)
(* enumerate the account's vehicles, ask each one for its location and its *)
(* charge state, and notify by SMS (and optionally email) when a vehicle   *)
(* is at home and unplugged.                                               *)
(*                                                                         *)
(* Coordinates are integers in units of 0.0001 degree.  A JSON object is a *)
(* record; a field the payload lacks is a field outside its DOMAIN, and    *)
(* reading it raises KeyError as the Python subscript does.  A Python dict *)
(* is a sequence of [k, v] entries in insertion order with unique keys.    *)
(***************************************************************************)
EXTENDS Integers, Sequences, FiniteSets, TLC

VARIABLES
    pc,                 \* position of the run in main() and its callees
    config,             \* the final configuration record
    account,            \* the vehicles the remote account holds
    log,                \* the HTTP requests issued so far, in order
    resp,               \* the payload of the last HTTP response
    error,              \* the exception that ended the run, "" if none
    token,              \* TeslaConnect._token
    vehicles_json,      \* get_vehicles: the decoded enumeration payload
    vehicles,           \* get_vehicles: the dict it builds and returns
    i,                  \* get_vehicles: position in vehicles_json['response']
    j,                  \* check_plugin_status_all: position in vehicles.items()
    unplugged_vehicles, \* check_plugin_status_all: the dict it builds and returns
    ret,                \* the value the last is_car_at_home / is_car_unplugged call returned
    message,            \* main: the composed alert message
    sms_calls,          \* the calls of MessageSender.send_sms, in order
    email_calls,        \* the calls of Emailer.send_emails, in order
    mobile_true,        \* history: identifiers whose mobile_enabled answer was JSON true
    home_true,          \* history: identifiers whose drive_state answer was inside the geofence
    disconnected_true   \* history: identifiers whose charging_state answer was "Disconnected"

run_vars == <<pc, config, account, log, resp, error, token, vehicles_json, vehicles, i, j,
              unplugged_vehicles, ret, message, sms_calls, email_calls,
              mobile_true, home_true, disconnected_true>>

(* check_plugin_status_all applied to two orderings of the same vehicles. *)
VARIABLES
    order_pc,           \* "idle", "listed", "first", "both"
    listing,            \* the dict of get_vehicles in a first order
    relisting,          \* the same entries in a second order
    home_answers,       \* identifiers for which is_car_at_home returns True
    unplugged_answers,  \* identifiers for which is_car_unplugged returns True
    first_result,       \* the dict returned for listing
    second_result       \* the dict returned for relisting

order_vars == <<order_pc, listing, relisting, home_answers, unplugged_answers,
                first_result, second_result>>

(* compose_disconnect_message applied to a dict. *)
VARIABLES
    compose_pc,         \* "idle", "called", "returned"
    vehicles_arg,       \* the argument 'vehicles'
    composed            \* the string returned

compose_vars == <<compose_pc, vehicles_arg, composed>>

(* One call of MessageSender.send_sms. *)
VARIABLES
    sms_pc,             \* position in send_sms
    twilio_datafile,    \* config['twilio']['datafile'] and what it designates
    phone_numbers,      \* the dict of _get_phone_numbers
    sms_n,              \* position in phone_numbers.items()
    created,            \* the calls of client.messages.create, in order
    sms_error           \* the exception that ended the call, "" if none

sms_vars == <<sms_pc, twilio_datafile, phone_numbers, sms_n, created, sms_error>>

(* One call of Emailer.send_emails. *)
VARIABLES
    smtp_pc,            \* position in send_emails
    smtp_config,        \* config['smtp'] with config['logging_level']
    emails,             \* the dict of _get_emails
    smtp_n,             \* position in emails.items()
    smtp_log,           \* the calls on the SMTP connection, in order
    smtp_error          \* the exception that ended the call, "" if none

smtp_vars == <<smtp_pc, smtp_config, emails, smtp_n, smtp_log, smtp_error>>

(* The three stages that build the configuration in main. *)
VARIABLES
    settings_pc,        \* position in main before the poll
    file_json,          \* the content of config.json
    environ,            \* os.environ
    opts,               \* the options getopt returns for argv
    settings,           \* the configuration built so far
    settings_error      \* the exception that ended the stage, "" if none

settings_vars == <<settings_pc, file_json, environ, opts, settings, settings_error>>

(* What the run of main() leaves alone. *)
others == <<order_vars, compose_vars, sms_vars, smtp_vars, settings_vars>>

(* What each of the other specifications leaves alone. *)
beside_order == <<run_vars, compose_vars, sms_vars, smtp_vars, settings_vars>>
beside_compose == <<run_vars, order_vars, sms_vars, smtp_vars, settings_vars>>
beside_sms == <<run_vars, order_vars, compose_vars, smtp_vars, settings_vars>>
beside_smtp == <<run_vars, order_vars, compose_vars, sms_vars, settings_vars>>
beside_settings == <<run_vars, order_vars, compose_vars, sms_vars, smtp_vars>>

vars == <<run_vars, others>>

----------------------------------------------------------------------------
(* Bounds of the exploration. *)

MaxVehicles == 2

(* 0.0005 degree, the tolerance of is_car_at_home, in units of 0.0001. *)
Tolerance == 5

----------------------------------------------------------------------------
(* The inputs of a run. *)

VehicleIds == {ToString(n) : n \in 1..MaxVehicles}

DisplayNames == {"Car", "Van"}

(* One element of the 'response' list of the enumeration payload. *)
VehicleRecords ==
    [id_s : VehicleIds \cup {""}, display_name : DisplayNames, in_service : BOOLEAN]

(* Vehicle identifiers are unique within an account; the empty identifier *)
(* is the absence of one and may repeat.                                  *)
DistinctIds(s) ==
    \A p, q \in DOMAIN s : (p # q /\ s[p].id_s # "") => s[p].id_s # s[q].id_s

Accounts ==
    {s \in UNION {[1..n -> VehicleRecords] : n \in 0..MaxVehicles} : DistinctIds(s)}

(* config['tesla_connect']['home_location'] and config['send_email'].  One *)
(* home is the one of the test suite (28.50, -101.01), the other lies     *)
(* within the tolerance of the equator, so that differences change sign.  *)
HomeLatitudes == {285000, 2}
HomeLongitudes == {-1010100}

Configs ==
    [home_latitude : HomeLatitudes, home_longitude : HomeLongitudes, send_email : BOOLEAN]

(* Offsets from home of the coordinates a drive_state answer may carry. *)
Offsets == {-6, -5, 0, 5, 6}

ChargingStates == {"Disconnected", "disconnected", "", "Charging", "Complete"}

(* JSON values of the 'response' field of a mobile_enabled answer. *)
MobileAnswers == {"true", "false", "1"}

(* requests.get / requests.post raising instead of returning. *)
TransportFailure == [exception |-> "ConnectionError"]

Raised(r) == "exception" \in DOMAIN r

----------------------------------------------------------------------------
(* Python dict as an insertion-ordered sequence of entries. *)

DictKeys(d) == {d[n].k : n \in DOMAIN d}

DictValues(d) == {d[n].v : n \in DOMAIN d}

(* A dict that is created anew at every insertion. *)
DictSet_fresh(d, key, value) ==
    <<[k |-> key, v |-> value]>>

DictSet(d, key, value) ==
    IF key \in DictKeys(d)
    THEN [n \in DOMAIN d |-> IF d[n].k = key THEN [k |-> key, v |-> value] ELSE d[n]]
    ELSE Append(d, [k |-> key, v |-> value])

(* The Python builtin function object 'id', used as a dict key. *)
BuiltinId == "<built-in function id>"

----------------------------------------------------------------------------
(* HTTP requests as they are written to the wire. *)

Request(method, what, vehicle_id, bearer) ==
    [method |-> method, what |-> what, vehicle |-> vehicle_id, bearer |-> bearer]

(* The answers the remote service may give to each request. *)
TokenReplies ==
    {[access_token |-> "tok"], [error |-> "invalid_grant"], TransportFailure}

(* The enumeration payload carries the account's vehicles and their number *)
(* in 'count'; a malformed payload lacks one of the two fields.            *)
EnumerationReplies(acct) ==
    {[count |-> Len(acct), response |-> acct],
     [response |-> acct],
     [count |-> Len(acct)],
     TransportFailure}

MobileReplies ==
    {[response |-> a] : a \in MobileAnswers} \cup {[error |-> "timeout"], TransportFailure}

DriveStateReplies(cfg) ==
    {[response |-> [latitude |-> cfg.home_latitude + a, longitude |-> cfg.home_longitude + b]] :
        a, b \in Offsets}
    \cup {[response |-> [latitude |-> cfg.home_latitude + a]] : a \in {0, 6}}
    \cup {[response |-> [longitude |-> cfg.home_longitude + b]] : b \in {0, 6}}
    \cup {TransportFailure}

ChargeStateReplies ==
    {[response |-> [charging_state |-> s]] : s \in ChargingStates}
    \cup {[response |-> [battery_level |-> 50]], TransportFailure}

NoResponse == [none |-> TRUE]

NoReturn == [op |-> "none", vehicle |-> "", value |-> FALSE]

----------------------------------------------------------------------------
(* Pure parts of the code. *)

Abs(x) == IF x < 0 THEN -x ELSE x

(* tesla_connect.py:94-97.  'and' reads the longitude only when the *)
(* latitude is within tolerance.                                    *)
latitude_within(r, cfg) ==
    Abs(r.response.latitude - cfg.home_latitude) <= Tolerance

(* The tolerance taken as an open interval. *)
longitude_within_strict(r, cfg) ==
    Abs(r.response.longitude - cfg.home_longitude) < Tolerance

longitude_within(r, cfg) ==
    Abs(r.response.longitude - cfg.home_longitude) <= Tolerance

(* Both fields read before any comparison. *)
at_home_raises_eager(r, cfg) ==
    \/ "response" \notin DOMAIN r
    \/ "latitude" \notin DOMAIN r.response
    \/ "longitude" \notin DOMAIN r.response

at_home_raises(r, cfg) ==
    \/ "response" \notin DOMAIN r
    \/ "latitude" \notin DOMAIN r.response
    \/ latitude_within(r, cfg) /\ "longitude" \notin DOMAIN r.response

(* The longitude left out of the comparison. *)
at_home_value_latitude_only(r, cfg) ==
    latitude_within(r, cfg)

at_home_value(r, cfg) ==
    latitude_within(r, cfg) /\ longitude_within(r, cfg)

(* The charge state asked whatever is_car_at_home returned. *)
at_home_is_true_ignored(returned) ==
    TRUE

(* charge_status.py:25, 'is True'. *)
at_home_is_true(returned) ==
    returned = TRUE

(* tesla_connect.py:108-109. *)
unplugged_raises(r) ==
    \/ "response" \notin DOMAIN r
    \/ "charging_state" \notin DOMAIN r.response

(* The comparison done without regard to case. *)
unplugged_value_caseless(r) ==
    r.response.charging_state \in {"Disconnected", "disconnected"}

unplugged_value(r) ==
    r.response.charging_state = "Disconnected"

(* The loop entered for a count of zero as well. *)
count_not_negative(vehicles_payload) ==
    vehicles_payload.count >= 0

(* tesla_connect.py:70. *)
count_positive(vehicles_payload) ==
    vehicles_payload.count > 0

(* The answer tested for truthiness instead of identity with True. *)
mobile_enabled_value_truthy(r) ==
    r.response \in {"true", "1"}

(* tesla_connect.py:78, 'is True'. *)
mobile_enabled_value(r) ==
    r.response = "true"

(* The in_service flag left out of the test. *)
vehicle_is_queried_ignoring_service(vehicle) ==
    Len(vehicle.id_s) > 0

(* The identifier left out of the test. *)
vehicle_is_queried_any_id(vehicle) ==
    ~vehicle.in_service

(* tesla_connect.py:72. *)
vehicle_is_queried(vehicle) ==
    Len(vehicle.id_s) > 0 /\ ~vehicle.in_service

(* charge_status.py:27, 'unplugged_vehicles[id] = vehicle_name': the key *)
(* is the builtin, not vehicle_id.                                       *)
insert_unplugged(d, vehicle_id, vehicle_name) ==
    DictSet(d, BuiltinId, vehicle_name)

(* main.py:194. *)
any_unplugged(d) ==
    Len(d) > 0

(* The send_email setting ignored. *)
email_wanted_always(cfg) ==
    TRUE

(* main.py:199, 'is True'. *)
email_wanted(cfg) ==
    cfg.send_email = TRUE

(* The newline put between the lines instead of after each. *)
RECURSIVE compose_from_separated(_, _)
compose_from_separated(d, n) ==
    IF n > Len(d) THEN ""
    ELSE IF n = Len(d) THEN "Vehicle " \o d[n].v \o " is disconnected."
    ELSE ("Vehicle " \o d[n].v \o " is disconnected.\n") \o compose_from_separated(d, n + 1)

(* charge_status.py:31-38. *)
RECURSIVE compose_from(_, _)
compose_from(d, n) ==
    IF n > Len(d) THEN ""
    ELSE ("Vehicle " \o d[n].v \o " is disconnected.\n") \o compose_from(d, n + 1)

compose_disconnect_message(d) == compose_from(d, 1)

----------------------------------------------------------------------------
(* The run. *)

(* Nothing of the two-orderings comparison is in progress. *)
OrderIdle ==
    /\ order_pc = "idle"
    /\ listing = <<>>
    /\ relisting = <<>>
    /\ home_answers = {}
    /\ unplugged_answers = {}
    /\ first_result = <<>>
    /\ second_result = <<>>

ComposeIdle ==
    /\ compose_pc = "idle"
    /\ vehicles_arg = <<>>
    /\ composed = ""

SmsIdle ==
    /\ sms_pc = "idle"
    /\ twilio_datafile = [kind |-> "none"]
    /\ phone_numbers = <<>>
    /\ sms_n = 0
    /\ created = <<>>
    /\ sms_error = ""

SmtpIdle ==
    /\ smtp_pc = "idle"
    /\ smtp_config = [kind |-> "none"]
    /\ emails = <<>>
    /\ smtp_n = 0
    /\ smtp_log = <<>>
    /\ smtp_error = ""

SettingsIdle ==
    /\ settings_pc = "idle"
    /\ file_json = [kind |-> "none"]
    /\ environ = [kind |-> "none"]
    /\ opts = <<>>
    /\ settings = [kind |-> "none"]
    /\ settings_error = ""

OthersIdle == OrderIdle /\ ComposeIdle /\ SmsIdle /\ SmtpIdle /\ SettingsIdle

(* The state of a run before its first step, for a configuration and an *)
(* account.                                                             *)
RunStart(cfg, acct) ==
    /\ pc = "construct"
    /\ config = cfg
    /\ account = acct
    /\ log = <<>>
    /\ resp = NoResponse
    /\ error = ""
    /\ token = ""
    /\ vehicles_json = NoResponse
    /\ vehicles = <<>>
    /\ i = 0
    /\ j = 0
    /\ unplugged_vehicles = <<>>
    /\ ret = NoReturn
    /\ message = ""
    /\ sms_calls = <<>>
    /\ email_calls = <<>>
    /\ mobile_true = {}
    /\ home_true = {}
    /\ disconnected_true = {}

Init ==
    /\ \E cfg \in Configs, acct \in Accounts : RunStart(cfg, acct)
    /\ OthersIdle

history == <<mobile_true, home_true, disconnected_true>>

(* An exception of the vehicle calls caught and the run carried on to the *)
(* notification.                                                         *)
Raise_swallowed(exception) ==
    /\ pc' = IF pc \in {"send_sms", "send_emails"} THEN "failed" ELSE "send_sms"
    /\ error' = exception

(* An uncaught exception: nothing in main() or below it has a try block *)
(* around the vehicle calls, so the run ends where the exception rises. *)
Raise(exception) ==
    /\ pc' = "failed"
    /\ error' = exception

(* The token read with a default, so that a response without one goes on. *)
TeslaConnect_init_lenient ==
    /\ pc = "construct"
    /\ \E r \in TokenReplies :
        /\ log' = Append(log, Request("POST", "oauth/token", "", ""))
        /\ resp' = r
        /\ IF Raised(r)
           THEN Raise(r.exception) /\ UNCHANGED token
           ELSE /\ token' = IF "access_token" \in DOMAIN r THEN r.access_token ELSE ""
                /\ pc' = "get_vehicles"
                /\ UNCHANGED error
    /\ UNCHANGED <<others, config, account, vehicles_json, vehicles, i, j, unplugged_vehicles,
                   ret, message, sms_calls, email_calls, history>>

(* The client constructed a second time before it is used. *)
TeslaConnect_init_repeated ==
    /\ pc = "construct"
    /\ \E r \in TokenReplies :
        /\ log' = Append(log, Request("POST", "oauth/token", "", ""))
        /\ resp' = r
        /\ IF Raised(r)
           THEN Raise(r.exception) /\ UNCHANGED token
           ELSE IF "access_token" \notin DOMAIN r
           THEN Raise("KeyError") /\ UNCHANGED token
           ELSE /\ token' = r.access_token
                /\ pc' = IF log = <<>> THEN "construct" ELSE "get_vehicles"
                /\ UNCHANGED error
    /\ UNCHANGED <<others, config, account, vehicles_json, vehicles, i, j, unplugged_vehicles,
                   ret, message, sms_calls, email_calls, history>>

(* TeslaConnect.__init__, called from check_plugin_status_all. *)
TeslaConnect_init ==
    /\ pc = "construct"
    /\ \E r \in TokenReplies :
        /\ log' = Append(log, Request("POST", "oauth/token", "", ""))
        /\ resp' = r
        /\ IF Raised(r)
           THEN Raise(r.exception) /\ UNCHANGED token
           ELSE IF "access_token" \notin DOMAIN r
           THEN Raise("KeyError") /\ UNCHANGED token
           ELSE /\ token' = r.access_token
                /\ pc' = "get_vehicles"
                /\ UNCHANGED error
    /\ UNCHANGED <<others, config, account, vehicles_json, vehicles, i, j, unplugged_vehicles,
                   ret, message, sms_calls, email_calls, history>>

(* get_vehicles up to the loop: the enumeration request and the count test. *)
get_vehicles_request ==
    /\ pc = "get_vehicles"
    /\ \E r \in EnumerationReplies(account) :
        /\ log' = Append(log, Request("GET", "vehicles", "", token))
        /\ resp' = r
        /\ IF Raised(r)
           THEN Raise(r.exception) /\ UNCHANGED <<vehicles_json, vehicles, i, j>>
           ELSE IF "count" \notin DOMAIN r
           THEN Raise("KeyError") /\ vehicles_json' = r /\ UNCHANGED <<vehicles, i, j>>
           ELSE IF count_positive(r)
           THEN IF "response" \notin DOMAIN r
                THEN Raise("KeyError") /\ vehicles_json' = r /\ UNCHANGED <<vehicles, i, j>>
                ELSE /\ vehicles_json' = r
                     /\ vehicles' = <<>>
                     /\ i' = 1
                     /\ pc' = "get_vehicles_loop"
                     /\ UNCHANGED <<error, j>>
           ELSE /\ vehicles_json' = r
                /\ vehicles' = <<>>
                /\ j' = 1
                /\ pc' = "check_loop"
                /\ UNCHANGED <<error, i>>
    /\ UNCHANGED <<others, config, account, token, unplugged_vehicles, ret, message,
                   sms_calls, email_calls, history>>

(* One iteration of the loop of get_vehicles. *)
get_vehicles_iterate ==
    /\ pc = "get_vehicles_loop"
    /\ i <= Len(vehicles_json.response)
    /\ LET vehicle == vehicles_json.response[i] IN
       IF vehicle_is_queried(vehicle)
       THEN \E r \in MobileReplies :
            /\ log' = Append(log, Request("GET", "mobile_enabled", vehicle.id_s, token))
            /\ resp' = r
            /\ IF Raised(r)
               THEN Raise(r.exception) /\ UNCHANGED <<vehicles, i, mobile_true>>
               ELSE IF "response" \notin DOMAIN r
               THEN Raise("KeyError") /\ UNCHANGED <<vehicles, i, mobile_true>>
               ELSE /\ vehicles' = IF mobile_enabled_value(r)
                                   THEN DictSet(vehicles, vehicle.id_s, vehicle.display_name)
                                   ELSE vehicles
                    /\ mobile_true' = IF r.response = "true"
                                      THEN mobile_true \cup {vehicle.id_s}
                                      ELSE mobile_true
                    /\ i' = i + 1
                    /\ UNCHANGED <<pc, error>>
       ELSE /\ i' = i + 1
            /\ UNCHANGED <<pc, error, log, resp, vehicles, mobile_true>>
    /\ UNCHANGED <<others, config, account, token, vehicles_json, j, unplugged_vehicles, ret,
                   message, sms_calls, email_calls, home_true, disconnected_true>>

(* get_vehicles returns its dict to check_plugin_status_all. *)
get_vehicles_return ==
    /\ pc = "get_vehicles_loop"
    /\ i > Len(vehicles_json.response)
    /\ pc' = "check_loop"
    /\ j' = 1
    /\ UNCHANGED <<others, config, account, log, resp, error, token, vehicles_json, vehicles, i,
                   unplugged_vehicles, ret, message, sms_calls, email_calls, history>>

(* check_plugin_status_all: the call of is_car_at_home for the next item. *)
is_car_at_home ==
    /\ pc = "check_loop"
    /\ j <= Len(vehicles)
    /\ LET vehicle_id == vehicles[j].k IN
       \E r \in DriveStateReplies(config) :
        /\ log' = Append(log, Request("GET", "drive_state", vehicle_id, token))
        /\ resp' = r
        /\ IF Raised(r)
           THEN Raise(r.exception) /\ ret' = NoReturn /\ UNCHANGED <<j, home_true>>
           ELSE IF at_home_raises(r, config)
           THEN Raise("KeyError") /\ ret' = NoReturn /\ UNCHANGED <<j, home_true>>
           ELSE /\ ret' = [op |-> "is_car_at_home", vehicle |-> vehicle_id,
                           value |-> at_home_value(r, config)]
                /\ home_true' =
                     IF /\ r.response.latitude - config.home_latitude \in -Tolerance..Tolerance
                        /\ "longitude" \in DOMAIN r.response
                        /\ r.response.longitude - config.home_longitude \in -Tolerance..Tolerance
                     THEN home_true \cup {vehicle_id}
                     ELSE home_true
                /\ IF at_home_is_true(at_home_value(r, config))
                   THEN pc' = "is_car_unplugged" /\ UNCHANGED j
                   ELSE pc' = "check_loop" /\ j' = j + 1
                /\ UNCHANGED error
    /\ UNCHANGED <<others, config, account, token, vehicles_json, vehicles, i, unplugged_vehicles,
                   message, sms_calls, email_calls, mobile_true, disconnected_true>>

(* check_plugin_status_all: the call of is_car_unplugged and the insertion. *)
is_car_unplugged ==
    /\ pc = "is_car_unplugged"
    /\ LET vehicle_id == vehicles[j].k
           vehicle_name == vehicles[j].v
       IN
       \E r \in ChargeStateReplies :
        /\ log' = Append(log, Request("GET", "charge_state", vehicle_id, token))
        /\ resp' = r
        /\ IF Raised(r)
           THEN /\ Raise(r.exception)
                /\ ret' = NoReturn
                /\ UNCHANGED <<j, unplugged_vehicles, disconnected_true>>
           ELSE IF unplugged_raises(r)
           THEN /\ Raise("KeyError")
                /\ ret' = NoReturn
                /\ UNCHANGED <<j, unplugged_vehicles, disconnected_true>>
           ELSE /\ ret' = [op |-> "is_car_unplugged", vehicle |-> vehicle_id,
                           value |-> unplugged_value(r)]
                /\ disconnected_true' =
                     IF r.response.charging_state = "Disconnected"
                     THEN disconnected_true \cup {vehicle_id}
                     ELSE disconnected_true
                /\ unplugged_vehicles' =
                     IF unplugged_value(r)
                     THEN insert_unplugged(unplugged_vehicles, vehicle_id, vehicle_name)
                     ELSE unplugged_vehicles
                /\ j' = j + 1
                /\ pc' = "check_loop"
                /\ UNCHANGED error
    /\ UNCHANGED <<others, config, account, token, vehicles_json, vehicles, i,
                   message, sms_calls, email_calls, mobile_true, home_true>>

(* check_plugin_status_all returns to main, which tests the length. *)
check_plugin_status_all_return ==
    /\ pc = "check_loop"
    /\ j > Len(vehicles)
    /\ IF any_unplugged(unplugged_vehicles)
       THEN /\ message' = compose_disconnect_message(unplugged_vehicles)
            /\ pc' = "send_sms"
       ELSE /\ pc' = "done"
            /\ UNCHANGED message
    /\ UNCHANGED <<others, config, account, log, resp, error, token, vehicles_json, vehicles, i, j,
                   unplugged_vehicles, ret, sms_calls, email_calls, history>>

AlertSubject == "Alert:  Tesla charge status"

(* main: MessageSender(config).send_sms(...), which may raise. *)
send_sms ==
    /\ pc = "send_sms"
    /\ sms_calls' = Append(sms_calls, [subject |-> AlertSubject, body |-> message])
    /\ \E raised \in BOOLEAN :
        IF raised
        THEN Raise("TwilioException")
        ELSE /\ pc' = IF email_wanted(config) THEN "send_emails" ELSE "done"
             /\ UNCHANGED error
    /\ UNCHANGED <<others, config, account, log, resp, token, vehicles_json, vehicles, i, j,
                   unplugged_vehicles, ret, message, email_calls, history>>

(* main: Emailer(config).send_emails(...), which may raise. *)
send_emails ==
    /\ pc = "send_emails"
    /\ email_calls' = Append(email_calls, [subject |-> AlertSubject, body |-> message])
    /\ \E raised \in BOOLEAN :
        IF raised
        THEN Raise("SMTPException")
        ELSE pc' = "done" /\ UNCHANGED error
    /\ UNCHANGED <<others, config, account, log, resp, token, vehicles_json, vehicles, i, j,
                   unplugged_vehicles, ret, message, sms_calls, history>>

Next ==
    \/ TeslaConnect_init
    \/ get_vehicles_request
    \/ get_vehicles_iterate
    \/ get_vehicles_return
    \/ is_car_at_home
    \/ is_car_unplugged
    \/ check_plugin_status_all_return
    \/ send_sms
    \/ send_emails

Spec == Init /\ [][Next]_vars

TypeOK ==
    /\ pc \in {"construct", "get_vehicles", "get_vehicles_loop", "check_loop",
               "is_car_unplugged", "send_sms", "send_emails", "done", "failed"}
    /\ config \in Configs
    /\ account \in Accounts
    /\ error \in {"", "KeyError", "ConnectionError", "TwilioException", "SMTPException"}
    /\ (pc = "failed") <=> (error # "")
    /\ i \in 0..(MaxVehicles + 1)
    /\ j \in 0..(MaxVehicles + 1)
    /\ Len(sms_calls) <= 1
    /\ Len(email_calls) <= 1

----------------------------------------------------------------------------
(* check_plugin_status_all as a function of the dict of get_vehicles and   *)
(* of what is_car_at_home and is_car_unplugged return for each identifier, *)
(* applied to two orderings of the same entries.                           *)

(* charge_status.py:22-29: the loop over vehicles.items(), from item n on. *)
RECURSIVE check_plugin_status_all_loop(_, _, _, _, _)
check_plugin_status_all_loop(items, n, at_home, unplugged, acc) ==
    IF n > Len(items) THEN acc
    ELSE check_plugin_status_all_loop(items, n + 1, at_home, unplugged,
            IF items[n].k \in at_home
            THEN IF items[n].k \in unplugged
                 THEN insert_unplugged(acc, items[n].k, items[n].v)
                 ELSE acc
            ELSE acc)

(* Dicts get_vehicles can return: distinct identifiers, any names. *)
Listings ==
    {d \in UNION {[1..n -> [k : VehicleIds, v : DisplayNames]] : n \in 0..MaxVehicles} :
        \A p, q \in DOMAIN d : p # q => d[p].k # d[q].k}

Reorderings(d) ==
    {t \in [DOMAIN d -> {d[n] : n \in DOMAIN d}] :
        {t[n] : n \in DOMAIN t} = {d[n] : n \in DOMAIN d}}

TestConfig == [home_latitude |-> 285000, home_longitude |-> -1010100, send_email |-> FALSE]

(* The run of main() before its first step, on the configuration of the *)
(* test suite and an empty account.                                     *)
RunIdle == RunStart(TestConfig, <<>>)

InitOrder ==
    /\ RunIdle
    /\ ComposeIdle /\ SmsIdle /\ SmtpIdle /\ SettingsIdle
    /\ order_pc = "listed"
    /\ listing \in Listings
    /\ relisting \in Reorderings(listing)
    /\ home_answers \in SUBSET VehicleIds
    /\ unplugged_answers \in SUBSET VehicleIds
    /\ first_result = <<>>
    /\ second_result = <<>>

check_first_order ==
    /\ order_pc = "listed"
    /\ first_result' =
         check_plugin_status_all_loop(listing, 1, home_answers, unplugged_answers, <<>>)
    /\ order_pc' = "first"
    /\ UNCHANGED <<beside_order, listing, relisting, home_answers, unplugged_answers,
                   second_result>>

check_second_order ==
    /\ order_pc = "first"
    /\ second_result' =
         check_plugin_status_all_loop(relisting, 1, home_answers, unplugged_answers, <<>>)
    /\ order_pc' = "both"
    /\ UNCHANGED <<beside_order, listing, relisting, home_answers, unplugged_answers,
                   first_result>>

NextOrder ==
    \/ check_first_order
    \/ check_second_order

SpecOrder == InitOrder /\ [][NextOrder]_vars

----------------------------------------------------------------------------
(* compose_disconnect_message applied to any dict of identifiers (the    *)
(* builtin key among them) to display names.                             *)

ComposeNames == DisplayNames \cup {"Model S"}

ComposeArguments ==
    {d \in UNION {[1..n -> [k : VehicleIds \cup {BuiltinId}, v : ComposeNames]] :
                     n \in 0..MaxVehicles} :
        \A p, q \in DOMAIN d : p # q => d[p].k # d[q].k}

InitCompose ==
    /\ RunIdle
    /\ OrderIdle /\ SmsIdle /\ SmtpIdle /\ SettingsIdle
    /\ compose_pc = "called"
    /\ vehicles_arg \in ComposeArguments
    /\ composed = ""

compose_call ==
    /\ compose_pc = "called"
    /\ composed' = compose_disconnect_message(vehicles_arg)
    /\ compose_pc' = "returned"
    /\ UNCHANGED <<beside_compose, vehicles_arg>>

NextCompose == compose_call

SpecCompose == InitCompose /\ [][NextCompose]_vars

----------------------------------------------------------------------------
(* Recipient files and inline recipient dicts, as send_sms.py and         *)
(* emailer.py read them.  A line of a file is the sequence of fields that *)
(* split(',') gives; a field is its text and whether blanks or a newline  *)
(* surround it.  The 'datafile' setting is "" (kind "empty"), a JSON      *)
(* object (kind "inline"), a string that starts with '{' but does not     *)
(* parse (kind "malformed"), or a file name (kind "file").                *)

MaxRecipients == 2

RecipientNames == {"Ann", "Bob"}

Field(text, padded) == [text |-> text, padded |-> padded]

(* str.strip(). *)
strip(field) == field.text

FileLines(addresses) ==
    {<<Field(name, FALSE), Field(address, padded)>> :
        name \in RecipientNames, address \in addresses, padded \in BOOLEAN}
    \cup {<<Field("", TRUE)>>}

InlineDicts(addresses) ==
    {d \in UNION {[1..n -> [k : addresses, v : RecipientNames]] : n \in 0..MaxRecipients} :
        \A p, q \in DOMAIN d : p # q => d[p].k # d[q].k}

Datafiles(addresses) ==
    {[kind |-> "empty"], [kind |-> "malformed"], [kind |-> "file", exists |-> FALSE]}
    \cup {[kind |-> "inline", loaded |-> d] : d \in InlineDicts(addresses)}
    \cup {[kind |-> "file", exists |-> TRUE, lines |-> l] :
            l \in UNION {[1..n -> FileLines(addresses)] : n \in 0..MaxRecipients}}

(* '(name, x) = line.split(',')' fails unless there are two fields. *)
unpack_raises(lines) ==
    \E n \in DOMAIN lines : Len(lines[n]) # 2

----------------------------------------------------------------------------
(* MessageSender.send_sms. *)

PhoneNumbers == {"+15550001", "+15550002", "+15550003"}

SendingNumber == "+15559999"

AlertBody == "Vehicle Car is disconnected.\n"

(* The dict keyed by the name instead of the number. *)
RECURSIVE phone_numbers_from_lines_by_name(_, _, _)
phone_numbers_from_lines_by_name(lines, n, acc) ==
    IF n > Len(lines) THEN acc
    ELSE phone_numbers_from_lines_by_name(lines, n + 1,
            DictSet(acc, strip(lines[n][1]), strip(lines[n][2])))

(* send_sms.py:37-39: 'phone_numbers[number.strip()] = name.strip()'. *)
RECURSIVE phone_numbers_from_lines(_, _, _)
phone_numbers_from_lines(lines, n, acc) ==
    IF n > Len(lines) THEN acc
    ELSE phone_numbers_from_lines(lines, n + 1,
            DictSet(acc, strip(lines[n][2]), strip(lines[n][1])))

(* send_sms.py:26-43, the exception _get_phone_numbers lets through. *)
get_phone_numbers_raises(datafile) ==
    CASE datafile.kind = "empty" -> "IndexError"
      [] datafile.kind = "malformed" -> "JSONDecodeError"
      [] datafile.kind = "file" /\ datafile.exists /\ unpack_raises(datafile.lines) -> "ValueError"
      [] OTHER -> ""

(* send_sms.py:26-43, the dict _get_phone_numbers returns. *)
get_phone_numbers_value(datafile) ==
    IF datafile.kind = "inline" THEN datafile.loaded
    ELSE IF datafile.exists THEN phone_numbers_from_lines(datafile.lines, 1, <<>>)
    ELSE <<>>

InitSms ==
    /\ RunIdle
    /\ OrderIdle /\ ComposeIdle /\ SmtpIdle /\ SettingsIdle
    /\ sms_pc = "called"
    /\ twilio_datafile \in Datafiles(PhoneNumbers)
    /\ phone_numbers = <<>>
    /\ sms_n = 0
    /\ created = <<>>
    /\ sms_error = ""

(* send_sms.py:55-58: the recipients are read and the client is made. *)
get_phone_numbers ==
    /\ sms_pc = "called"
    /\ IF get_phone_numbers_raises(twilio_datafile) # ""
       THEN /\ sms_error' = get_phone_numbers_raises(twilio_datafile)
            /\ sms_pc' = "raised"
            /\ UNCHANGED <<phone_numbers, sms_n>>
       ELSE /\ phone_numbers' = get_phone_numbers_value(twilio_datafile)
            /\ sms_n' = 1
            /\ sms_pc' = "loop"
            /\ UNCHANGED sms_error
    /\ UNCHANGED <<beside_sms, twilio_datafile, created>>

(* send_sms.py:61-64: one iteration, whose create call may raise. *)
messages_create ==
    /\ sms_pc = "loop"
    /\ sms_n <= Len(phone_numbers)
    /\ LET number == phone_numbers[sms_n].k
           name == phone_numbers[sms_n].v
           text == AlertSubject \o ". Hi " \o name \o ", " \o AlertBody
       IN created' = Append(created, [to |-> number, from_ |-> SendingNumber, body |-> text])
    /\ \E raised \in BOOLEAN :
        IF raised
        THEN sms_pc' = "raised" /\ sms_error' = "TwilioRestException" /\ UNCHANGED sms_n
        ELSE sms_n' = sms_n + 1 /\ UNCHANGED <<sms_pc, sms_error>>
    /\ UNCHANGED <<beside_sms, twilio_datafile, phone_numbers>>

(* send_sms.py:61: the loop is over and send_sms returns. *)
send_sms_return ==
    /\ sms_pc = "loop"
    /\ sms_n > Len(phone_numbers)
    /\ sms_pc' = "returned"
    /\ UNCHANGED <<beside_sms, twilio_datafile, phone_numbers, sms_n, created, sms_error>>

NextSms ==
    \/ get_phone_numbers
    \/ messages_create
    \/ send_sms_return

SpecSms == InitSms /\ [][NextSms]_vars

----------------------------------------------------------------------------
(* Emailer.send_emails. *)

EmailAddresses == {"ann@example.com", "bob@example.com", "cat@example.com"}

(* logging.DEBUG, logging.INFO and logging.WARNING. *)
LoggingDebug == 10
LoggingInfo == 20
LoggingWarning == 30

(* config['logging_level'] as main leaves it: a level of the logging  *)
(* module, or the string of TESLAALERT_LOGGING_LEVEL (main.py:114),   *)
(* here a level name that logging.basicConfig accepts (main.py:185).  *)
LoggingLevels ==
    {[number |-> LoggingDebug], [number |-> LoggingWarning], [string |-> "DEBUG"]}

SmtpConfigs ==
    [datafile : Datafiles(EmailAddresses), tls : BOOLEAN, logging_level : LoggingLevels]

(* emailer.py:36-38: 'emails[email.strip()] = name.strip()'. *)
RECURSIVE emails_from_lines(_, _, _)
emails_from_lines(lines, n, acc) ==
    IF n > Len(lines) THEN acc
    ELSE emails_from_lines(lines, n + 1,
            DictSet(acc, strip(lines[n][2]), strip(lines[n][1])))

(* emailer.py:25-42, the exception _get_emails lets through. *)
get_emails_raises(datafile) ==
    CASE datafile.kind = "empty" -> "IndexError"
      [] datafile.kind = "malformed" -> "JSONDecodeError"
      [] datafile.kind = "file" /\ datafile.exists /\ unpack_raises(datafile.lines) -> "ValueError"
      [] OTHER -> ""

(* emailer.py:25-42, the dict _get_emails returns. *)
get_emails_value(datafile) ==
    IF datafile.kind = "inline" THEN datafile.loaded
    ELSE IF datafile.exists THEN emails_from_lines(datafile.lines, 1, <<>>)
    ELSE <<>>

(* TLS started whatever the setting. *)
tls_wanted_always(cfg) ==
    TRUE

(* emailer.py:56, 'is True'. *)
tls_wanted(cfg) ==
    cfg.tls = TRUE

(* emailer.py:64-67; comparing a string with logging.INFO is a TypeError. *)
debuglevel_raises(cfg) ==
    "number" \notin DOMAIN cfg.logging_level

debuglevel_value(cfg) ==
    IF cfg.logging_level.number <= LoggingInfo THEN "1" ELSE "0"

SmtpCall(call, arg) == [call |-> call, arg |-> arg]

SmtpRaise(exception) ==
    /\ smtp_pc' = "raised"
    /\ smtp_error' = exception

InitSmtp ==
    /\ RunIdle
    /\ OrderIdle /\ ComposeIdle /\ SmsIdle /\ SettingsIdle
    /\ smtp_pc = "called"
    /\ smtp_config \in SmtpConfigs
    /\ emails = <<>>
    /\ smtp_n = 0
    /\ smtp_log = <<>>
    /\ smtp_error = ""

(* emailer.py:52. *)
get_emails ==
    /\ smtp_pc = "called"
    /\ IF get_emails_raises(smtp_config.datafile) # ""
       THEN SmtpRaise(get_emails_raises(smtp_config.datafile)) /\ UNCHANGED emails
       ELSE /\ emails' = get_emails_value(smtp_config.datafile)
            /\ smtp_pc' = "connect"
            /\ UNCHANGED smtp_error
    /\ UNCHANGED <<beside_smtp, smtp_config, smtp_n, smtp_log>>

(* emailer.py:55-56: the connection, then the test of the tls setting. *)
smtp_connect ==
    /\ smtp_pc = "connect"
    /\ smtp_log' = Append(smtp_log, SmtpCall("SMTP", ""))
    /\ \E raised \in BOOLEAN :
        IF raised
        THEN SmtpRaise("ConnectionRefusedError")
        ELSE /\ smtp_pc' = IF tls_wanted(smtp_config) THEN "starttls" ELSE "login"
             /\ UNCHANGED smtp_error
    /\ UNCHANGED <<beside_smtp, smtp_config, emails, smtp_n>>

(* emailer.py:57. *)
smtp_starttls ==
    /\ smtp_pc = "starttls"
    /\ smtp_log' = Append(smtp_log, SmtpCall("starttls", ""))
    /\ \E raised \in BOOLEAN :
        IF raised
        THEN SmtpRaise("SMTPException")
        ELSE smtp_pc' = "login" /\ UNCHANGED smtp_error
    /\ UNCHANGED <<beside_smtp, smtp_config, emails, smtp_n>>

(* emailer.py:58-67: the login, then the debug level. *)
smtp_login ==
    /\ smtp_pc = "login"
    /\ \E raised \in BOOLEAN :
        IF raised
        THEN /\ smtp_log' = Append(smtp_log, SmtpCall("login", ""))
             /\ SmtpRaise("SMTPAuthenticationError")
             /\ UNCHANGED smtp_n
        ELSE IF debuglevel_raises(smtp_config)
        THEN /\ smtp_log' = Append(smtp_log, SmtpCall("login", ""))
             /\ SmtpRaise("TypeError")
             /\ UNCHANGED smtp_n
        ELSE /\ smtp_log' = smtp_log \o <<SmtpCall("login", ""),
                                           SmtpCall("set_debuglevel", debuglevel_value(smtp_config))>>
             /\ smtp_n' = 1
             /\ smtp_pc' = "loop"
             /\ UNCHANGED smtp_error
    /\ UNCHANGED <<beside_smtp, smtp_config, emails>>

(* The failure of a sendmail call caught, the loop going on. *)
smtp_sendmail_caught ==
    /\ smtp_pc = "loop"
    /\ smtp_n <= Len(emails)
    /\ smtp_log' = Append(smtp_log, SmtpCall("sendmail", emails[smtp_n].k))
    /\ smtp_n' = smtp_n + 1
    /\ \E raised \in BOOLEAN :
        IF raised
        THEN smtp_error' = "SMTPRecipientsRefused" /\ UNCHANGED smtp_pc
        ELSE UNCHANGED <<smtp_pc, smtp_error>>
    /\ UNCHANGED <<beside_smtp, smtp_config, emails>>

(* emailer.py:71-78: one iteration, whose sendmail call may raise. *)
smtp_sendmail ==
    /\ smtp_pc = "loop"
    /\ smtp_n <= Len(emails)
    /\ smtp_log' = Append(smtp_log, SmtpCall("sendmail", emails[smtp_n].k))
    /\ \E raised \in BOOLEAN :
        IF raised
        THEN SmtpRaise("SMTPRecipientsRefused") /\ UNCHANGED smtp_n
        ELSE smtp_n' = smtp_n + 1 /\ UNCHANGED <<smtp_pc, smtp_error>>
    /\ UNCHANGED <<beside_smtp, smtp_config, emails>>

(* emailer.py:79. *)
smtp_quit ==
    /\ smtp_pc = "loop"
    /\ smtp_n > Len(emails)
    /\ smtp_log' = Append(smtp_log, SmtpCall("quit", ""))
    /\ smtp_pc' = "returned"
    /\ UNCHANGED <<beside_smtp, smtp_config, emails, smtp_n, smtp_error>>

NextSmtp ==
    \/ get_emails
    \/ smtp_connect
    \/ smtp_starttls
    \/ smtp_login
    \/ smtp_sendmail
    \/ smtp_quit

SpecSmtp == InitSmtp /\ [][NextSmtp]_vars

----------------------------------------------------------------------------
(* The configuration of main(): the file, then the environment, then the *)
(* command line.  Of the settings, the six that all three sources can    *)
(* give are followed; the keys of config['twilio'] and config['smtp']    *)
(* that main.py:80-108 writes are read by none of them.                  *)

(* A value of the configuration with its Python type. *)
Str(s) == [string |-> s]
Num(n) == [number |-> n]
Bool(b) == [bool |-> b]

(* logging.ERROR and logging.CRITICAL. *)
LoggingError == 40
LoggingCritical == 50

(* str.lower on the level names that occur. *)
lower(s) ==
    CASE s = "DEBUG" -> "debug"
      [] s = "Error" -> "error"
      [] OTHER -> s

(* main.py:20-37. *)
map_logging_level_string(level_string) ==
    CASE lower(level_string) = "debug" -> LoggingDebug
      [] lower(level_string) = "info" -> LoggingInfo
      [] lower(level_string) = "warning" -> LoggingWarning
      [] lower(level_string) = "error" -> LoggingError
      [] lower(level_string) = "critical" -> LoggingCritical
      [] OTHER -> LoggingWarning

(* float() on the texts that occur, in units of 0.0001 degree; any other *)
(* text is not a number.                                                 *)
float_raises(text) == text \notin {"28.5001", "-101.0099", "2.0", "-3"}

float(text) ==
    CASE text = "28.5001" -> 285001
      [] text = "-101.0099" -> -1010099
      [] text = "2.0" -> 20000
      [] text = "-3" -> -30000

(* bool(int()) on the texts that occur. *)
bool_int(text) ==
    CASE text = "0" -> FALSE
      [] text = "1" -> TRUE

(* config.json: missing, or the settings it holds. *)
ConfigFiles ==
    {[kind |-> "missing"]} \cup
    {[kind |-> "json", username |-> "file@example.com", password |-> "file-secret",
      latitude |-> 285000, longitude |-> -1010100, send_email |-> b,
      logging_level |-> "info"] : b \in BOOLEAN}

EnvNames ==
    {"TESLAALERT_USERNAME", "TESLAALERT_PASSWORD", "TESLAALERT_HOME_LATITUDE",
     "TESLAALERT_HOME_LONGITUDE", "TESLAALERT_SEND_EMAIL", "TESLAALERT_LOGGING_LEVEL"}

EnvValue(name, latitude, send_email) ==
    CASE name = "TESLAALERT_USERNAME" -> "env@example.com"
      [] name = "TESLAALERT_PASSWORD" -> "env-secret"
      [] name = "TESLAALERT_HOME_LATITUDE" -> latitude
      [] name = "TESLAALERT_HOME_LONGITUDE" -> "-101.0099"
      [] name = "TESLAALERT_SEND_EMAIL" -> send_email
      [] name = "TESLAALERT_LOGGING_LEVEL" -> "DEBUG"

(* os.environ: the variables that are set, with their texts. *)
Environs ==
    {[name \in set |-> EnvValue(name, latitude, send_email)] :
        set \in SUBSET EnvNames, latitude \in {"28.5001", "north"},
        send_email \in {"0", "1"}}

Option(opt, arg) == [opt |-> opt, arg |-> arg]

AllOptions ==
    <<Option("-u", "cli@example.com"), Option("-p", "cli-secret"),
      Option("--latitude", "2.0"), Option("--longitude", "-3"),
      Option("-e", ""), Option("-l", "Error"), Option("-h", "")>>

OptionNames == {AllOptions[n].opt : n \in DOMAIN AllOptions}

IsGiven(option, given) == option.opt \in given

(* What getopt returns for the command lines that give some of the options. *)
CommandLines ==
    {SelectSeq(AllOptions, LAMBDA option : IsGiven(option, given)) :
        given \in SUBSET OptionNames}

(* main.py:57. *)
file_settings(file) ==
    [username |-> Str(file.username), password |-> Str(file.password),
     latitude |-> Num(file.latitude), longitude |-> Num(file.longitude),
     send_email |-> Bool(file.send_email),
     logging_level |-> Num(map_logging_level_string(file.logging_level))]

(* main.py:75-78, float() of a text that is no number. *)
environment_raises(env) ==
    \/ "TESLAALERT_HOME_LATITUDE" \in DOMAIN env
        /\ float_raises(env["TESLAALERT_HOME_LATITUDE"])
    \/ "TESLAALERT_HOME_LONGITUDE" \in DOMAIN env
        /\ float_raises(env["TESLAALERT_HOME_LONGITUDE"])

(* main.py:71-114. *)
environment_settings(cfg, env) ==
    [username |-> IF "TESLAALERT_USERNAME" \in DOMAIN env
                  THEN Str(env["TESLAALERT_USERNAME"]) ELSE cfg.username,
     password |-> IF "TESLAALERT_PASSWORD" \in DOMAIN env
                  THEN Str(env["TESLAALERT_PASSWORD"]) ELSE cfg.password,
     latitude |-> IF "TESLAALERT_HOME_LATITUDE" \in DOMAIN env
                  THEN Num(float(env["TESLAALERT_HOME_LATITUDE"])) ELSE cfg.latitude,
     longitude |-> IF "TESLAALERT_HOME_LONGITUDE" \in DOMAIN env
                   THEN Num(float(env["TESLAALERT_HOME_LONGITUDE"])) ELSE cfg.longitude,
     send_email |-> IF "TESLAALERT_SEND_EMAIL" \in DOMAIN env
                    THEN Bool(bool_int(env["TESLAALERT_SEND_EMAIL"])) ELSE cfg.send_email,
     logging_level |-> IF "TESLAALERT_LOGGING_LEVEL" \in DOMAIN env
                       THEN Str(env["TESLAALERT_LOGGING_LEVEL"]) ELSE cfg.logging_level]

(* main.py:152-166, one turn of the loop over the options. *)
option_settings(cfg, option) ==
    CASE option.opt = "-u" -> [cfg EXCEPT !.username = Str(option.arg)]
      [] option.opt = "-p" -> [cfg EXCEPT !.password = Str(option.arg)]
      [] option.opt = "--latitude" -> [cfg EXCEPT !.latitude = Num(float(option.arg))]
      [] option.opt = "--longitude" -> [cfg EXCEPT !.longitude = Num(float(option.arg))]
      [] option.opt = "-e" -> [cfg EXCEPT !.send_email = Bool(TRUE)]
      [] option.opt = "-l" ->
            [cfg EXCEPT !.logging_level = Num(map_logging_level_string(option.arg))]
      [] OTHER -> cfg

(* main.py:151-166, the loop up to the help option or the end. *)
RECURSIVE command_line_settings(_, _, _)
command_line_settings(cfg, options, n) ==
    IF n > Len(options) \/ options[n].opt = "-h" THEN cfg
    ELSE command_line_settings(option_settings(cfg, options[n]), options, n + 1)

(* main.py:152-154. *)
help_asked(options) == \E n \in DOMAIN options : options[n].opt = "-h"

InitSettings ==
    /\ RunIdle
    /\ OrderIdle /\ ComposeIdle /\ SmsIdle /\ SmtpIdle
    /\ settings_pc = "start"
    /\ file_json \in ConfigFiles
    /\ environ \in Environs
    /\ opts \in CommandLines
    /\ settings = [kind |-> "none"]
    /\ settings_error = ""

(* main.py:181. *)
load_configuration_file ==
    /\ settings_pc = "start"
    /\ IF file_json.kind = "missing"
       THEN /\ settings_pc' = "raised"
            /\ settings_error' = "FileNotFoundError"
            /\ UNCHANGED settings
       ELSE /\ settings' = file_settings(file_json)
            /\ settings_pc' = "loaded"
            /\ UNCHANGED settings_error
    /\ UNCHANGED <<beside_settings, file_json, environ, opts>>

(* main.py:182. *)
process_environment_vars ==
    /\ settings_pc = "loaded"
    /\ IF environment_raises(environ)
       THEN /\ settings_pc' = "raised"
            /\ settings_error' = "ValueError"
            /\ UNCHANGED settings
       ELSE /\ settings' = environment_settings(settings, environ)
            /\ settings_pc' = "environment"
            /\ UNCHANGED settings_error
    /\ UNCHANGED <<beside_settings, file_json, environ, opts>>

(* main.py:183. *)
process_command_line ==
    /\ settings_pc = "environment"
    /\ settings' = command_line_settings(settings, opts, 1)
    /\ settings_pc' = IF help_asked(opts) THEN "exited" ELSE "done"
    /\ UNCHANGED <<beside_settings, file_json, environ, opts, settings_error>>

NextSettings ==
    \/ load_configuration_file
    \/ process_environment_vars
    \/ process_command_line

SpecSettings == InitSettings /\ [][NextSettings]_vars

----------------------------------------------------------------------------
(* Vocabulary of the properties. *)

(* get_vehicles has returned its dict. *)
GetVehiclesReturned == j >= 1

(* check_plugin_status_all has returned its dict to main. *)
CheckReturned ==
    \/ pc \in {"send_sms", "send_emails", "done"}
    \/ error \in {"TwilioException", "SMTPException"}

Terminated == pc \in {"done", "failed"}

Asked(what, vehicle_id) ==
    \E n \in DOMAIN log : log[n].what = what /\ log[n].vehicle = vehicle_id

(* The four conditions, read off the account and the remote answers. *)
Qualifies(v) ==
    /\ ~v.in_service
    /\ v.id_s \in mobile_true
    /\ v.id_s \in home_true
    /\ v.id_s \in disconnected_true

(* Positions of the account that get_vehicles has to return. *)
Eligible ==
    {p \in DOMAIN account :
        /\ account[p].id_s # ""
        /\ ~account[p].in_service
        /\ account[p].id_s \in mobile_true}

(* Identifiers returned by get_vehicles that are at home and unplugged. *)
HomeAndUnplugged ==
    {key \in DictKeys(vehicles) : key \in home_true /\ key \in disconnected_true}

----------------------------------------------------------------------------
(* C1: every display name in the dict built by check_plugin_status_all is *)
(* the name of a vehicle of the account that is not in service, answered  *)
(* true to mobile_enabled, is inside the home geofence and reported the   *)
(* charging state "Disconnected"; a vehicle failing one of the four is    *)
(* not named unless a qualifying vehicle bears the same name.             *)
C1_OnlyQualifyingNamed ==
    \A n \in DOMAIN unplugged_vehicles :
        \E p \in DOMAIN account :
            /\ account[p].display_name = unplugged_vehicles[n].v
            /\ Qualifies(account[p])

(* Two vehicles at home, the first disconnected and the second not: only *)
(* the first is named.                                                   *)
C1_Witness ==
    /\ CheckReturned
    /\ Len(account) = 2
    /\ account[1].display_name # account[2].display_name
    /\ {account[1].id_s, account[2].id_s} \subseteq home_true
    /\ account[1].id_s \in disconnected_true
    /\ Asked("charge_state", account[2].id_s)
    /\ account[2].id_s \notin disconnected_true
    /\ DictValues(unplugged_vehicles) = {account[1].display_name}

(* C2: the dict returned by check_plugin_status_all has exactly one entry *)
(* for each vehicle returned by get_vehicles that is at home and          *)
(* unplugged, keyed by the vehicle's identifier with its display name as  *)
(* value, hence k entries for k such vehicles.                            *)
C2_OneEntryPerQualifying ==
    CheckReturned =>
        /\ DictKeys(unplugged_vehicles) = HomeAndUnplugged
        /\ \A n \in DOMAIN unplugged_vehicles :
               \E m \in DOMAIN vehicles : vehicles[m] = unplugged_vehicles[n]
        /\ Len(unplugged_vehicles) = Cardinality(HomeAndUnplugged)

C4_FailClosed ==
    error \in {"KeyError", "ConnectionError"} =>
        /\ pc = "failed"
        /\ sms_calls = <<>>
        /\ email_calls = <<>>

(* A vehicle had qualified when a later call raised. *)
C4_Witness ==
    /\ pc = "failed"
    /\ error = "KeyError"
    /\ Len(unplugged_vehicles) > 0
    /\ log[Len(log)].what \in {"drive_state", "charge_state"}

(* C5: a token response without access_token makes the construction      *)
(* raise; the token request stays the only request of the run.           *)
C5_NoTokenNoVehicleRequest ==
    (pc # "construct" /\ token = "" /\ ~Raised(resp)) =>
        /\ pc = "failed"
        /\ error = "KeyError"
        /\ log = <<Request("POST", "oauth/token", "", "")>>
        /\ \A n \in DOMAIN log : log[n].method # "GET"
        /\ i = 0 /\ j = 0 /\ ret = NoReturn

C5_Witness ==
    /\ pc = "failed"
    /\ "access_token" \notin DOMAIN resp
    /\ ~Raised(resp)
    /\ Len(log) = 1
    /\ Len(account) > 0

(* C6: a vehicle whose in_service flag is true is never a key of the     *)
(* dict of get_vehicles.                                                 *)
C6_InServiceNeverReturned ==
    \A p \in DOMAIN account :
        account[p].in_service => account[p].id_s \notin DictKeys(vehicles)

(* An in-service vehicle with an identifier, next to a returned vehicle. *)
C6_Witness ==
    /\ GetVehiclesReturned
    /\ Len(vehicles) > 0
    /\ \E p \in DOMAIN account : account[p].in_service /\ account[p].id_s # ""

(* C7: a vehicle whose mobile_enabled answer is not JSON true is never a *)
(* key of the dict of get_vehicles, and the vehicles queried with the    *)
(* answer true are returned all the same.                                *)
C7_MobileDisabledNeverReturned ==
    /\ \A p \in DOMAIN account :
           account[p].id_s \notin mobile_true => account[p].id_s \notin DictKeys(vehicles)
    /\ GetVehiclesReturned => mobile_true \subseteq DictKeys(vehicles)

C7_Witness ==
    /\ GetVehiclesReturned
    /\ \E p, q \in DOMAIN account :
        /\ Asked("mobile_enabled", account[p].id_s)
        /\ account[p].id_s \notin mobile_true
        /\ account[p].id_s \notin DictKeys(vehicles)
        /\ account[q].id_s \in mobile_true
        /\ account[q].id_s \in DictKeys(vehicles)

(* C8: get_vehicles returns exactly the vehicles of the enumeration that *)
(* have an identifier, are not in service and answered true to           *)
(* mobile_enabled, each under its identifier with its display name.      *)
C8_AllEligibleReturned ==
    GetVehiclesReturned =>
        /\ DictKeys(vehicles) = {account[p].id_s : p \in Eligible}
        /\ \A p \in Eligible :
               \E n \in DOMAIN vehicles :
                   vehicles[n] = [k |-> account[p].id_s, v |-> account[p].display_name]
        /\ Len(vehicles) = Cardinality(Eligible)

C8_Witness ==
    /\ GetVehiclesReturned
    /\ Cardinality(Eligible) = 2
    /\ Len(vehicles) = 2

(* C9: is_car_at_home returns true exactly when the latitude and the     *)
(* longitude are both within 0.0005 degree of home, bounds included.     *)
C9_AtHomeIffBothWithin ==
    ret.op = "is_car_at_home" =>
        (ret.value <=>
            /\ "latitude" \in DOMAIN resp.response
            /\ resp.response.latitude - config.home_latitude >= -Tolerance
            /\ resp.response.latitude - config.home_latitude <= Tolerance
            /\ "longitude" \in DOMAIN resp.response
            /\ resp.response.longitude - config.home_longitude >= -Tolerance
            /\ resp.response.longitude - config.home_longitude <= Tolerance)

(* Both axes exactly on the bound. *)
C9_Witness ==
    /\ ret.op = "is_car_at_home"
    /\ ret.value
    /\ resp.response.latitude - config.home_latitude = Tolerance
    /\ resp.response.longitude - config.home_longitude = -Tolerance

(* C10: is_car_unplugged returns true exactly when charging_state is the *)
(* string "Disconnected".                                                *)
C10_UnpluggedIffDisconnected ==
    ret.op = "is_car_unplugged" =>
        (ret.value <=> resp.response.charging_state = "Disconnected")

C10_Witness ==
    /\ ret.op = "is_car_unplugged"
    /\ ~ret.value
    /\ resp.response.charging_state = "disconnected"

(* The entries of a dict, without their order. *)
DictEntries(d) == {d[n] : n \in DOMAIN d}

(* C11: for two orderings of the same vehicles with the same answers,    *)
(* check_plugin_status_all returns the same mapping.                     *)
C11_SameMappingForAnyOrder ==
    order_pc = "both" => DictEntries(first_result) = DictEntries(second_result)

(* The last request of the run asked for this. *)
LastRequest(what) == log # <<>> /\ log[Len(log)].what = what

(* C12 as stated: is_car_at_home raises whenever the drive_state answer  *)
(* lacks the latitude or lacks the longitude.                            *)
C12_RaisesOnAnyMissingField ==
    (/\ LastRequest("drive_state")
     /\ ~Raised(resp)
     /\ \/ "latitude" \notin DOMAIN resp.response
        \/ "longitude" \notin DOMAIN resp.response) =>
        /\ pc = "failed"
        /\ error = "KeyError"
        /\ ret = NoReturn

(* C12 as amended: it raises when the latitude is missing, or when the   *)
(* longitude is missing and the latitude is within tolerance; with the   *)
(* latitude out of tolerance and no longitude it returns False.          *)
C12_RaisesOnMissingFieldItReads ==
    (LastRequest("drive_state") /\ ~Raised(resp)) =>
        /\ (\/ "latitude" \notin DOMAIN resp.response
            \/ /\ "longitude" \notin DOMAIN resp.response
               /\ resp.response.latitude - config.home_latitude \in -Tolerance..Tolerance) =>
               (pc = "failed" /\ error = "KeyError" /\ ret = NoReturn)
        /\ (/\ "latitude" \in DOMAIN resp.response
            /\ "longitude" \notin DOMAIN resp.response
            /\ resp.response.latitude - config.home_latitude \notin -Tolerance..Tolerance) =>
               (error # "KeyError" /\ ret.op = "is_car_at_home" /\ ret.value = FALSE)

C12_Witness ==
    /\ pc = "failed"
    /\ error = "KeyError"
    /\ LastRequest("drive_state")
    /\ ~Raised(resp)
    /\ "latitude" \in DOMAIN resp.response
    /\ "longitude" \notin DOMAIN resp.response

(* C13 as stated: get_vehicles raises whenever the enumeration payload   *)
(* lacks count or lacks response.                                        *)
C13_RaisesOnAnyMissingField ==
    (/\ vehicles_json # NoResponse
     /\ \/ "count" \notin DOMAIN vehicles_json
        \/ "response" \notin DOMAIN vehicles_json) =>
        /\ pc = "failed"
        /\ error = "KeyError"
        /\ ~GetVehiclesReturned

(* C13 as amended: it raises when count is missing, or when response is  *)
(* missing and count is positive; with a count of zero and no response   *)
(* it returns the empty mapping.                                         *)
C13_RaisesOnMissingFieldItReads ==
    vehicles_json # NoResponse =>
        /\ (\/ "count" \notin DOMAIN vehicles_json
            \/ /\ "response" \notin DOMAIN vehicles_json
               /\ vehicles_json.count > 0) =>
               (pc = "failed" /\ error = "KeyError" /\ ~GetVehiclesReturned)
        /\ (/\ "count" \in DOMAIN vehicles_json
            /\ "response" \notin DOMAIN vehicles_json
            /\ vehicles_json.count <= 0) =>
               (error # "KeyError" /\ GetVehiclesReturned /\ vehicles = <<>>)

C13_Witness ==
    /\ pc = "failed"
    /\ error = "KeyError"
    /\ vehicles_json # NoResponse
    /\ "count" \in DOMAIN vehicles_json
    /\ vehicles_json.count > 0
    /\ "response" \notin DOMAIN vehicles_json

(* C14: the run issues at most one token POST, as its first request; no  *)
(* GET is issued before that request has answered with a token, and      *)
(* every GET carries that token.                                         *)
C14_OneAuthenticationFirst ==
    /\ \A n \in DOMAIN log : (log[n].method = "POST") <=> (n = 1)
    /\ \A n \in DOMAIN log : log[n].method = "POST" => log[n].what = "oauth/token"
    /\ \A n \in DOMAIN log :
           log[n].method = "GET" => (token # "" /\ log[n].bearer = token)

C14_Witness ==
    /\ pc = "done"
    /\ Len(log) >= 5
    /\ log[1].method = "POST"
    /\ \A n \in 2..Len(log) : log[n].method = "GET"

(* Number of requests of the log that ask this of this vehicle. *)
Requests(what, vehicle_id) ==
    Cardinality({n \in DOMAIN log : log[n].what = what /\ log[n].vehicle = vehicle_id})

(* C15: get_vehicles issues one enumeration GET, then one mobile_enabled *)
(* GET for each listed vehicle with an identifier that is not in         *)
(* service, none for the other vehicles, and none twice.                 *)
C15_OneMobileCheckPerQueriedVehicle ==
    /\ Requests("vehicles", "") <= 1
    /\ Requests("mobile_enabled", "") = 0
    /\ \A p \in DOMAIN account :
        /\ Requests("mobile_enabled", account[p].id_s) <= 1
        /\ (account[p].id_s = "" \/ account[p].in_service) =>
               Requests("mobile_enabled", account[p].id_s) = 0
    /\ \A n \in DOMAIN log :
           log[n].what = "mobile_enabled" =>
               \E p \in DOMAIN account : account[p].id_s = log[n].vehicle
    /\ GetVehiclesReturned =>
        /\ Requests("vehicles", "") = 1
        /\ \A p \in DOMAIN account :
               (account[p].id_s # "" /\ ~account[p].in_service) =>
                   Requests("mobile_enabled", account[p].id_s) = 1

(* An in-service vehicle and a queried one: three requests in all. *)
C15_Witness ==
    /\ GetVehiclesReturned
    /\ pc = "check_loop"
    /\ j = 1
    /\ Len(account) = 2
    /\ account[1].in_service /\ account[1].id_s # ""
    /\ ~account[2].in_service /\ account[2].id_s # ""
    /\ Len(log) = 3
    /\ Requests("mobile_enabled", account[2].id_s) = 1

(* The lines of the first n entries, each built and terminated on its *)
(* own, joined from the last one backwards.                           *)
RECURSIVE LinesUpTo(_, _)
LinesUpTo(d, n) ==
    IF n = 0 THEN ""
    ELSE LinesUpTo(d, n - 1) \o ("Vehicle " \o (d[n].v \o (" is disconnected." \o "\n")))

RECURSIVE LengthUpTo(_, _)
LengthUpTo(d, n) ==
    IF n = 0 THEN 0
    ELSE LengthUpTo(d, n - 1) + Len("Vehicle ") + Len(d[n].v) + Len(" is disconnected.") + 1

(* C16: compose_disconnect_message returns one newline-terminated line   *)
(* "Vehicle <name> is disconnected." per entry and nothing else; the     *)
(* empty dict gives the empty string, {"1": "Car"} gives the one line.   *)
C16_OneLinePerEntry ==
    compose_pc = "returned" =>
        /\ composed = LinesUpTo(vehicles_arg, Len(vehicles_arg))
        /\ Len(composed) = LengthUpTo(vehicles_arg, Len(vehicles_arg))
        /\ vehicles_arg = <<>> => composed = ""
        /\ vehicles_arg = <<[k |-> "1", v |-> "Car"]>> =>
               composed = "Vehicle Car is disconnected.\n"

C16_Witness ==
    /\ compose_pc = "returned"
    /\ Len(vehicles_arg) = 2
    /\ vehicles_arg[1].v = "Car"
    /\ vehicles_arg[2].v = "Model S"
    /\ composed = "Vehicle Car is disconnected.\nVehicle Model S is disconnected.\n"

(* The addresses a datafile setting names: the second field of each    *)
(* line of the file, blanks apart, or the keys of the inline dict; none *)
(* when the file does not exist.                                        *)
Recipients(datafile) ==
    IF datafile.kind = "inline" THEN {datafile.loaded[n].k : n \in DOMAIN datafile.loaded}
    ELSE IF datafile.kind = "file" /\ datafile.exists
    THEN {datafile.lines[n][Len(datafile.lines[n])].text : n \in DOMAIN datafile.lines}
    ELSE {}

(* C17: send_sms makes one messages.create call per recipient of the     *)
(* datafile setting, file or inline dict, addressed to the recipient's   *)
(* number: never two for one number, and one for each when it returns.   *)
C17_OneSmsPerRecipient ==
    /\ \A m, n \in DOMAIN created : created[m].to = created[n].to => m = n
    /\ sms_pc # "idle" =>
           \A n \in DOMAIN created : created[n].to \in Recipients(twilio_datafile)
    /\ sms_pc = "returned" =>
        /\ {created[n].to : n \in DOMAIN created} = Recipients(twilio_datafile)
        /\ Len(created) = Cardinality(Recipients(twilio_datafile))

(* Two lines 'name, number' with different numbers, two messages. *)
C17_Witness ==
    /\ sms_pc = "returned"
    /\ twilio_datafile.kind = "file"
    /\ twilio_datafile.exists
    /\ Len(twilio_datafile.lines) = 2
    /\ Len(created) = 2
    /\ created[1].to = twilio_datafile.lines[1][2].text
    /\ created[2].to = twilio_datafile.lines[2][2].text
    /\ twilio_datafile.lines[2][2].padded

(* Positions of the SMTP log that hold this call. *)
SmtpCalls(call) == {n \in DOMAIN smtp_log : smtp_log[n].call = call}

SentTo == {smtp_log[n].arg : n \in SmtpCalls("sendmail")}

(* What stops send_emails from outside: a datafile setting that cannot *)
(* be read, or a call on the SMTP server that fails.                   *)
DatafileErrors == {"IndexError", "JSONDecodeError", "ValueError"}
SmtpErrors ==
    {"ConnectionRefusedError", "SMTPException", "SMTPAuthenticationError",
     "SMTPRecipientsRefused"}

(* C18: send_emails opens one connection, logs in once and calls         *)
(* sendmail once per recipient of the datafile setting, file or inline   *)
(* dict, addressed to the recipient's address; it stops short of that    *)
(* only when the datafile cannot be read or a call on the server fails.  *)
C18_OneEmailPerRecipient ==
    /\ smtp_pc = "raised" => smtp_error \in DatafileErrors \cup SmtpErrors
    /\ Cardinality(SmtpCalls("SMTP")) <= 1
    /\ Cardinality(SmtpCalls("login")) <= 1
    /\ \A m, n \in SmtpCalls("sendmail") : smtp_log[m].arg = smtp_log[n].arg => m = n
    /\ smtp_pc # "idle" => SentTo \subseteq Recipients(smtp_config.datafile)
    /\ smtp_pc = "returned" =>
        /\ Cardinality(SmtpCalls("SMTP")) = 1
        /\ Cardinality(SmtpCalls("login")) = 1
        /\ SentTo = Recipients(smtp_config.datafile)
        /\ Cardinality(SmtpCalls("sendmail")) = Cardinality(Recipients(smtp_config.datafile))

(* The tls test of send_emails is behind. *)
PastTlsTest == smtp_pc \in {"login", "loop", "returned"}

(* C19: starttls is called on the connection if and only if the tls      *)
(* setting is true; with tls false it is never called and the emails are *)
(* sent all the same.                                                    *)
C19_StarttlsIffTls ==
    /\ SmtpCalls("starttls") # {} => smtp_config.tls = TRUE
    /\ Cardinality(SmtpCalls("starttls")) <= 1
    /\ PastTlsTest => ((SmtpCalls("starttls") # {}) <=> (smtp_config.tls = TRUE))
    /\ (smtp_pc = "returned" /\ smtp_config.tls = FALSE) =>
        /\ SmtpCalls("starttls") = {}
        /\ SentTo = Recipients(smtp_config.datafile)

C19_Witness ==
    /\ smtp_pc = "returned"
    /\ smtp_config.tls = FALSE
    /\ SmtpCalls("starttls") = {}
    /\ Cardinality(SmtpCalls("sendmail")) >= 1

(* The argument of an option of the command line. *)
Given(opt) == \E n \in DOMAIN opts : opts[n].opt = opt
Arg(opt) == opts[CHOOSE n \in DOMAIN opts : opts[n].opt = opt].arg

IsSet(name) == name \in DOMAIN environ

(* The text or value of the source that takes precedence. *)
Preferred(opt, name, from_file) ==
    IF Given(opt) THEN Arg(opt)
    ELSE IF IsSet(name) THEN environ[name]
    ELSE from_file

(* C20: in the final configuration each of username, password, home      *)
(* latitude, home longitude, send_email and logging level is the value   *)
(* of the command line when the option is given, else of the environment *)
(* variable when it is set, else of the file, in one form whichever the  *)
(* source: a string, a number of degrees, a boolean, a logging number.   *)
C20_PrecedenceAndForm ==
    settings_pc = "done" =>
        /\ settings.username =
            Str(Preferred("-u", "TESLAALERT_USERNAME", file_json.username))
        /\ settings.password =
            Str(Preferred("-p", "TESLAALERT_PASSWORD", file_json.password))
        /\ settings.latitude =
            IF Given("--latitude") \/ IsSet("TESLAALERT_HOME_LATITUDE")
            THEN Num(float(Preferred("--latitude", "TESLAALERT_HOME_LATITUDE", "")))
            ELSE Num(file_json.latitude)
        /\ settings.longitude =
            IF Given("--longitude") \/ IsSet("TESLAALERT_HOME_LONGITUDE")
            THEN Num(float(Preferred("--longitude", "TESLAALERT_HOME_LONGITUDE", "")))
            ELSE Num(file_json.longitude)
        /\ settings.send_email =
            IF Given("-e") THEN Bool(TRUE)
            ELSE IF IsSet("TESLAALERT_SEND_EMAIL")
            THEN Bool(bool_int(environ["TESLAALERT_SEND_EMAIL"]))
            ELSE Bool(file_json.send_email)
        /\ settings.logging_level =
            Num(map_logging_level_string(
                Preferred("-l", "TESLAALERT_LOGGING_LEVEL", file_json.logging_level)))

(* Positions of the log that hold this request for this vehicle. *)
RequestsAt(what, vehicle_id) ==
    {n \in DOMAIN log : log[n].what = what /\ log[n].vehicle = vehicle_id}

(* The loop of check_plugin_status_all is done with this entry of vehicles. *)
LoopPast(p) == p < j \/ CheckReturned

(* C21: in check_plugin_status_all every vehicle's drive_state request   *)
(* comes before any charge_state request for it, a charge_state request  *)
(* is made only for a vehicle for which is_car_at_home returned true,    *)
(* and a vehicle that is not at home gets exactly one telemetry request, *)
(* its drive_state.                                                      *)
C21_LocationBeforeChargeState ==
    /\ \A key \in VehicleIds \cup {""} :
        /\ \A n \in RequestsAt("charge_state", key) :
              \E m \in RequestsAt("drive_state", key) : m < n
        /\ RequestsAt("charge_state", key) # {} => key \in home_true
        /\ Requests("drive_state", key) <= 1
        /\ Requests("charge_state", key) <= 1
    /\ pc = "is_car_unplugged" =>
        /\ ret = [op |-> "is_car_at_home", vehicle |-> vehicles[j].k, value |-> TRUE]
        /\ LastRequest("drive_state")
    /\ \A p \in DOMAIN vehicles :
        /\ LoopPast(p) => Requests("drive_state", vehicles[p].k) = 1
        /\ (LoopPast(p) /\ vehicles[p].k \notin home_true) =>
               Requests("charge_state", vehicles[p].k) = 0

(* Two vehicles: the first is away and got its one request, the second  *)
(* is at home and got the two, the location first.                      *)
C21_Witness ==
    /\ CheckReturned
    /\ Len(vehicles) = 2
    /\ vehicles[1].k \notin home_true
    /\ Requests("drive_state", vehicles[1].k) = 1
    /\ Requests("charge_state", vehicles[1].k) = 0
    /\ vehicles[2].k \in home_true
    /\ \E m \in RequestsAt("drive_state", vehicles[2].k) :
          \E n \in RequestsAt("charge_state", vehicles[2].k) : m < n

(* C22: within one send_emails call starttls, when enabled, precedes    *)
(* login, login precedes every sendmail, and quit is called once, after *)
(* the last sendmail, as the last call; when a sendmail call fails the  *)
(* recipients after it get nothing and quit is never called.            *)
C22_SmtpStepOrder ==
    /\ \A l \in SmtpCalls("login") :
        /\ \A s \in SmtpCalls("starttls") : s < l
        /\ smtp_config.tls = TRUE => \E s \in SmtpCalls("starttls") : s < l
        /\ \E c \in SmtpCalls("SMTP") : c < l
    /\ \A n \in SmtpCalls("sendmail") : \E l \in SmtpCalls("login") : l < n
    /\ Cardinality(SmtpCalls("quit")) <= 1
    /\ \A q \in SmtpCalls("quit") :
        /\ q = Len(smtp_log)
        /\ \A n \in SmtpCalls("sendmail") : n < q
    /\ (smtp_pc = "returned") <=> (SmtpCalls("quit") # {})
    /\ smtp_error = "SMTPRecipientsRefused" =>
        /\ smtp_pc = "raised"
        /\ SmtpCalls("quit") = {}
        /\ smtp_log[Len(smtp_log)] = SmtpCall("sendmail", emails[smtp_n].k)
        /\ SentTo = {emails[p].k : p \in 1..smtp_n}
        /\ \A p \in DOMAIN emails : p > smtp_n => emails[p].k \notin SentTo

(* TLS on, two recipients, the sendmail call for the first one failed. *)
C22_Witness ==
    /\ smtp_error = "SMTPRecipientsRefused"
    /\ smtp_config.tls = TRUE
    /\ SmtpCalls("starttls") # {}
    /\ Len(emails) = 2
    /\ smtp_n = 1
    /\ Cardinality(SmtpCalls("sendmail")) = 1
    /\ SmtpCalls("quit") = {}

====
